---- MODULE Spec2Model ----
(***************************************************************************)
(* Model of apps/simulation/parameters.py: the Regions value type, the     *)
(* Parameters constructor and the construct_parameters adapter.            *)
(*                                                                         *)
(* Encoding.  An Optional value is a set: None is {} and a present value v *)
(* is {v}.  A Python string is a tuple of one-character strings.  Numbers  *)
(* are integers (rates 0 and 1 lie in [0,1]; -1 and 2 lie outside).  An    *)
(* object is the function from its attribute names to their values.  A     *)
(* call that raises yields no object and an exception record.              *)
(***************************************************************************)
EXTENDS Integers, Sequences, FiniteSets, TLC

VARIABLES call, pc, kwargs, args, request_data, regions, parameters, exc

vars == <<call, pc, kwargs, args, request_data, regions, parameters, exc>>

(***************************************************************************)
(* Bounds of the explored inputs.                                          *)
(***************************************************************************)
MaxNum == 2
MaxRegionArgs == 2
MaxDateParts == 4

Nums == (0 - 1)..MaxNum

None == {}
Some(v) == {v}
Get(o) == CHOOSE v \in o : TRUE

Min(S) == CHOOSE x \in S : \A y \in S : x <= y

(***************************************************************************)
(* Exceptions.  Parameters.__init__ raises AssertionError for a missing    *)
(* population source; the validators raise the validation failure; int()   *)
(* and date() raise ValueError and indexing raises IndexError.             *)
(***************************************************************************)
Exception(type, field) == [type |-> type, field |-> field]

(***************************************************************************)
(* Validators (apps/simulation/validators, imported at lines 11-13): each  *)
(* returns the value unchanged or raises.                                  *)
(***************************************************************************)
Positive(value) == [raised |-> ~(value >= 0), value |-> value]

StrictlyPositive(value) == [raised |-> ~(value > 0), value |-> value]

OptionalStrictlyPositive(value) ==
    [raised |-> value # None /\ StrictlyPositive(Get(value)).raised, value |-> value]

Rate(value) == [raised |-> ~(0 <= value /\ value <= 1), value |-> value]

Date(value) == [raised |-> ~value.isdate, value |-> value]

OptionalDate(value) ==
    [raised |-> value # None /\ Date(Get(value)).raised, value |-> value]

(***************************************************************************)
(* datetime.date values; NotADate stands for a value that is not a date    *)
(* object (for instance a string).                                         *)
(***************************************************************************)
MkDate(y, m, d) == [isdate |-> TRUE, year |-> y, month |-> m, day |-> d]
NotADate == [isdate |-> FALSE, year |-> 0, month |-> 0, day |-> 0]

Disposition(rate, days) == [rate |-> rate, days |-> days]

(***************************************************************************)
(* Objects: setattr(self, key, value); a later assignment to the same      *)
(* attribute replaces the earlier one.                                     *)
(***************************************************************************)
NewObject == <<>>

SetAttr(self, key, value) == (key :> value) @@ self

(***************************************************************************)
(* class Regions.  kwargs is the sequence of <<key, value>> pairs in the   *)
(* order the caller wrote them.                                            *)
(***************************************************************************)
RECURSIVE RegionsLoop(_, _, _, _)
RegionsLoop(kw, i, self, population) ==
    IF i > Len(kw)
    THEN [self |-> self, population |-> population]
    ELSE RegionsLoop(kw, i + 1, SetAttr(self, kw[i][1], kw[i][2]),
                     population + kw[i][2])

Regions_init(kw) ==
    LET r == RegionsLoop(kw, 1, NewObject, 0)
    IN  SetAttr(r.self, "population", r.population)

(***************************************************************************)
(* class Parameters.  A construction step takes the keyword arguments a    *)
(* and yields the attributes it assigns, or the exception it raises.       *)
(***************************************************************************)
Ok(attrs) == [exc |-> None, self |-> attrs]
Raise(e) == [exc |-> Some(e), self |-> NewObject]

\* The validator calls of one step, in evaluation order: the first one that
\* raises ends the step.
FirstRaised(checks) ==
    LET bad == {i \in DOMAIN checks : checks[i][2].raised}
    IN  IF bad = {} THEN None
        ELSE Some(Exception("ValidationError", checks[Min(bad)][1]))

\* Lines 70-71.
InitCounts(a) ==
    LET ch == Positive(a.current_hospitalized)
        rc == Rate(a.relative_contact_rate)
        e  == FirstRaised(<< <<"current_hospitalized", ch>>,
                             <<"relative_contact_rate", rc>> >>)
    IN  IF e # None THEN Raise(Get(e))
        ELSE Ok([current_hospitalized |-> ch.value,
                 relative_contact_rate |-> rc.value])

\* InitDispositions without the last validator call (line 75 dropped).
InitDispositions_SkipsVentilatedDays(a) ==
    LET e == FirstRaised(<<
                <<"hospitalized.rate", Rate(a.hospitalized.rate)>>,
                <<"icu.rate", Rate(a.icu.rate)>>,
                <<"ventilated.rate", Rate(a.ventilated.rate)>>,
                <<"hospitalized.days", StrictlyPositive(a.hospitalized.days)>>,
                <<"icu.days", StrictlyPositive(a.icu.days)>> >>)
    IN  IF e # None THEN Raise(Get(e))
        ELSE Ok([hospitalized |-> a.hospitalized, icu |-> a.icu,
                 ventilated |-> a.ventilated])

\* Lines 73-79.
InitDispositions(a) ==
    LET e == FirstRaised(<<
                <<"hospitalized.rate", Rate(a.hospitalized.rate)>>,
                <<"icu.rate", Rate(a.icu.rate)>>,
                <<"ventilated.rate", Rate(a.ventilated.rate)>>,
                <<"hospitalized.days", StrictlyPositive(a.hospitalized.days)>>,
                <<"icu.days", StrictlyPositive(a.icu.days)>>,
                <<"ventilated.days", StrictlyPositive(a.ventilated.days)>> >>)
    IN  IF e # None THEN Raise(Get(e))
        ELSE Ok([hospitalized |-> a.hospitalized, icu |-> a.icu,
                 ventilated |-> a.ventilated])

\* InitPopulation taking the population branch only when no region is given,
\* so that both sources together reach the raise.
InitPopulation_Exclusive(a) ==
    IF a.region # None /\ a.population = None
    THEN LET p == StrictlyPositive(Get(a.region)["population"])
         IN  IF p.raised THEN Raise(Exception("ValidationError", "population"))
             ELSE Ok([region |-> a.region, population |-> p.value])
    ELSE IF a.population # None /\ a.region = None
    THEN LET p == StrictlyPositive(Get(a.population))
         IN  IF p.raised THEN Raise(Exception("ValidationError", "population"))
             ELSE Ok([region |-> None, population |-> p.value])
    ELSE Raise(Exception("AssertionError", "population or regions"))

\* InitPopulation falling back to a default population instead of raising.
InitPopulation_DefaultsPopulation(a) ==
    IF a.region # None /\ a.population = None
    THEN LET p == StrictlyPositive(Get(a.region)["population"])
         IN  IF p.raised THEN Raise(Exception("ValidationError", "population"))
             ELSE Ok([region |-> a.region, population |-> p.value])
    ELSE IF a.population # None
    THEN LET p == StrictlyPositive(Get(a.population))
         IN  IF p.raised THEN Raise(Exception("ValidationError", "population"))
             ELSE Ok([region |-> None, population |-> p.value])
    ELSE Ok([region |-> None, population |-> 1])

\* InitPopulation storing the supplied region in the population branch.
InitPopulation_KeepsRegion(a) ==
    IF a.region # None /\ a.population = None
    THEN LET p == StrictlyPositive(Get(a.region)["population"])
         IN  IF p.raised THEN Raise(Exception("ValidationError", "population"))
             ELSE Ok([region |-> a.region, population |-> p.value])
    ELSE IF a.population # None
    THEN LET p == StrictlyPositive(Get(a.population))
         IN  IF p.raised THEN Raise(Exception("ValidationError", "population"))
             ELSE Ok([region |-> a.region, population |-> p.value])
    ELSE Raise(Exception("AssertionError", "population or regions"))

\* Lines 81-88.
InitPopulation(a) ==
    IF a.region # None /\ a.population = None
    THEN LET p == StrictlyPositive(Get(a.region)["population"])
         IN  IF p.raised THEN Raise(Exception("ValidationError", "population"))
             ELSE Ok([region |-> a.region, population |-> p.value])
    ELSE IF a.population # None
    THEN LET p == StrictlyPositive(Get(a.population))
         IN  IF p.raised THEN Raise(Exception("ValidationError", "population"))
             ELSE Ok([region |-> None, population |-> p.value])
    ELSE Raise(Exception("AssertionError", "population or regions"))

\* Line 90.
InitCurrentDate(a) ==
    LET cd == Date(a.current_date)
    IN  IF cd.raised THEN Raise(Exception("ValidationError", "current_date"))
        ELSE Ok([current_date |-> cd.value])

\* Lines 92-93.
InitOnset(a) ==
    LET fh == OptionalDate(a.date_first_hospitalized)
        dt == OptionalStrictlyPositive(a.doubling_time)
        e  == FirstRaised(<< <<"date_first_hospitalized", fh>>,
                             <<"doubling_time", dt>> >>)
    IN  IF e # None THEN Raise(Get(e))
        ELSE Ok([date_first_hospitalized |-> fh.value, doubling_time |-> dt.value])

\* Lines 95-99.
InitProjection(a) ==
    LET id == StrictlyPositive(a.infectious_days)
        ms == Rate(a.market_share)
        my == OptionalStrictlyPositive(a.max_y_axis)
        nd == StrictlyPositive(a.n_days)
        re == Positive(a.recovered)
        e  == FirstRaised(<< <<"infectious_days", id>>,
                             <<"market_share", ms>>,
                             <<"max_y_axis", my>>,
                             <<"n_days", nd>>,
                             <<"recovered", re>> >>)
    IN  IF e # None THEN Raise(Get(e))
        ELSE Ok([infectious_days |-> id.value, market_share |-> ms.value,
                 max_y_axis |-> my.value, n_days |-> nd.value,
                 recovered |-> re.value])

labels ==
    [hospitalized |-> "Hospitalized", icu |-> "ICU", ventilated |-> "Ventilated",
     day |-> "Day", date |-> "Date", susceptible |-> "Susceptible",
     infected |-> "Infected", recovered |-> "Recovered"]

\* InitLookups with the icu and ventilated entries exchanged.
InitLookups_Swapped(a) ==
    Ok([labels |-> labels,
        dispositions |-> [hospitalized |-> a.hospitalized, icu |-> a.ventilated,
                          ventilated |-> a.icu]])

\* Lines 101-116.
InitLookups(a) ==
    Ok([labels |-> labels,
        dispositions |-> [hospitalized |-> a.hospitalized, icu |-> a.icu,
                          ventilated |-> a.ventilated]])

\* The statements of a constructor run in order: the first exception
\* propagates and no object is returned; otherwise the object holds every
\* attribute the steps assigned.
RECURSIVE Assigned(_, _)
Assigned(steps, n) ==
    IF n = 0 THEN NewObject ELSE steps[n].self @@ Assigned(steps, n - 1)

RunSteps(steps) ==
    LET bad == {i \in DOMAIN steps : steps[i].exc # None}
    IN  IF bad # {} THEN steps[Min(bad)] ELSE Ok(Assigned(steps, Len(steps)))

\* Parameters.__init__ resolving the population source before it validates
\* the dispositions.
Parameters_init_PopulationFirst(a) ==
    RunSteps(<<InitCounts(a), InitPopulation(a), InitDispositions(a),
               InitCurrentDate(a), InitOnset(a), InitProjection(a),
               InitLookups(a)>>)

\* Parameters.__init__: the steps in source order.
Parameters_init(a) ==
    RunSteps(<<InitCounts(a), InitDispositions(a), InitPopulation(a),
               InitCurrentDate(a), InitOnset(a), InitProjection(a),
               InitLookups(a)>>)

(***************************************************************************)
(* construct_parameters.  The request mapping holds, for each key, None    *)
(* when the key is missing and the value otherwise.                        *)
(***************************************************************************)
dict_get(o, default) == IF o = None THEN default ELSE Get(o)

\* str.split("-"): the pieces between the separators, empty pieces kept.
RECURSIVE split(_)
split(s) ==
    LET at == {i \in 1..Len(s) : s[i] = "-"}
    IN  IF at = {} THEN <<s>>
        ELSE <<SubSeq(s, 1, Min(at) - 1)>> \o split(SubSeq(s, Min(at) + 1, Len(s)))

Digits == {"0", "1", "2", "3", "4", "5", "6", "7", "8", "9"}

DigitValue(c) ==
    CASE c = "0" -> 0 [] c = "1" -> 1 [] c = "2" -> 2 [] c = "3" -> 3
      [] c = "4" -> 4 [] c = "5" -> 5 [] c = "6" -> 6 [] c = "7" -> 7
      [] c = "8" -> 8 [] c = "9" -> 9

RECURSIVE DecimalValue(_)
DecimalValue(s) ==
    IF s = <<>> THEN 0
    ELSE 10 * DecimalValue(SubSeq(s, 1, Len(s) - 1)) + DigitValue(s[Len(s)])

\* int(s) for a string of the modelled alphabet (digits, "-" and letters):
\* ValueError unless s is a non-empty run of digits.
int(s) ==
    IF s = <<>> \/ \E i \in 1..Len(s) : s[i] \notin Digits
    THEN [raised |-> TRUE, value |-> 0]
    ELSE [raised |-> FALSE, value |-> DecimalValue(s)]

IsLeap(y) == y % 4 = 0 /\ (y % 100 # 0 \/ y % 400 = 0)

DaysInMonth(y, m) ==
    IF m = 2 THEN (IF IsLeap(y) THEN 29 ELSE 28)
    ELSE IF m \in {4, 6, 9, 11} THEN 30 ELSE 31

\* datetime.date(year, month, day): ValueError outside the calendar.
date(y, m, d) ==
    IF 1 <= y /\ y <= 9999 /\ 1 <= m /\ m <= 12 /\ 1 <= d /\ d <= DaysInMonth(y, m)
    THEN [raised |-> FALSE, value |-> MkDate(y, m, d)]
    ELSE [raised |-> TRUE, value |-> NotADate]

DefaultDateString == <<"2", "0", "2", "0", "-", "7", "-", "3">>
DefaultPopulation == 10000
DefaultNDays == 100
DefaultInfectiousDays == 14

\* date.today() evaluated once, when the class body is compiled (line 59).
Today == MkDate(2020, 7, 4)

\* The keyword defaults of Parameters.__init__ (lines 59-68).
SignatureDefaults ==
    [current_date |-> Today, date_first_hospitalized |-> None,
     doubling_time |-> None, infectious_days |-> DefaultInfectiousDays,
     market_share |-> 1, max_y_axis |-> None, n_days |-> DefaultNDays,
     population |-> None, recovered |-> 0, region |-> None]

\* Line 125: split_date[0], int(...), split_date[1], int(...), ... are
\* evaluated left to right, then date(...) is called.
DateOfSplit(split_date) ==
    LET bad == {i \in 1..3 : i > Len(split_date) \/ int(split_date[i]).raised}
    IN  IF bad # {}
        THEN IF Min(bad) > Len(split_date)
             THEN [exc |-> Some(Exception("IndexError", "split_date")), value |-> NotADate]
             ELSE [exc |-> Some(Exception("ValueError", "int")), value |-> NotADate]
        ELSE LET dt == date(int(split_date[1]).value, int(split_date[2]).value,
                            int(split_date[3]).value)
             IN  IF dt.raised
                 THEN [exc |-> Some(Exception("ValueError", "date")), value |-> NotADate]
                 ELSE [exc |-> None, value |-> dt.value]

\* association_map reading population without its default.
association_map_NoPopulationDefault(r, first) ==
    [population |-> r.population,
     current_hospitalized |-> dict_get(r.currentHospitalized, 0),
     market_share |-> dict_get(r.hospitalMarketShare, 0),
     date_first_hospitalized |-> Some(first),
     hospitalized |-> Disposition(dict_get(r.hospitalizationPercent, 0),
                                  dict_get(r.averageHospitalLengthOfStay, 0)),
     icu |-> Disposition(dict_get(r.icuNeedPercent, 0),
                         dict_get(r.averageDaysInICU, 0)),
     infectious_days |-> dict_get(r.infectiousDays, 0),
     relative_contact_rate |-> dict_get(r.socialDistancing, 0),
     ventilated |-> Disposition(dict_get(r.ventilationNeedPercent, 0),
                                dict_get(r.averageDaysOnVentilator, 0)),
     n_days |-> dict_get(r.numberOfDaysToProject, DefaultNDays)]

\* Lines 121-138.
association_map(r, first) ==
    [population |-> Some(dict_get(r.population, DefaultPopulation)),
     current_hospitalized |-> dict_get(r.currentHospitalized, 0),
     market_share |-> dict_get(r.hospitalMarketShare, 0),
     date_first_hospitalized |-> Some(first),
     hospitalized |-> Disposition(dict_get(r.hospitalizationPercent, 0),
                                  dict_get(r.averageHospitalLengthOfStay, 0)),
     icu |-> Disposition(dict_get(r.icuNeedPercent, 0),
                         dict_get(r.averageDaysInICU, 0)),
     infectious_days |-> dict_get(r.infectiousDays, 0),
     relative_contact_rate |-> dict_get(r.socialDistancing, 0),
     ventilated |-> Disposition(dict_get(r.ventilationNeedPercent, 0),
                                dict_get(r.averageDaysOnVentilator, 0)),
     n_days |-> dict_get(r.numberOfDaysToProject, DefaultNDays)]

\* Lines 119-139.
construct_parameters(r) ==
    LET split_date == split(dict_get(r.dateOfFirstHospitalizedCase, DefaultDateString))
        first == DateOfSplit(split_date)
    IN  IF first.exc # None THEN Raise(Get(first.exc))
        ELSE Parameters_init(association_map(r, first.value) @@ SignatureDefaults)

(***************************************************************************)
(* The explored inputs.                                                    *)
(***************************************************************************)
RegionNames == <<"north", "south", "population">>

Keys(kw) == {kw[i][1] : i \in DOMAIN kw}

\* Keyword arguments of Regions: up to MaxRegionArgs distinct names in any
\* order, each with a count.
RECURSIVE KwargsOfLen(_)
KwargsOfLen(n) ==
    IF n = 0 THEN {<<>>}
    ELSE UNION {{Append(kw, <<RegionNames[j], v>>) :
                    j \in {i \in DOMAIN RegionNames : RegionNames[i] \notin Keys(kw)},
                    v \in Nums} : kw \in KwargsOfLen(n - 1)}

KwargsInputs == UNION {KwargsOfLen(n) : n \in 0..MaxRegionArgs}

IsOrdered(kw) ==
    \A i, j \in DOMAIN kw :
        i < j => \E m, n \in DOMAIN RegionNames :
                    m < n /\ RegionNames[m] = kw[i][1] /\ RegionNames[n] = kw[j][1]

\* The keyword arguments of the Regions instances handed to Parameters (the
\* order of the keyword arguments does not change the instance).
OrderedKwargs == {kw \in KwargsInputs : IsOrdered(kw)}

OptionalNums == {None} \cup {Some(n) : n \in Nums}

PopulationArgs ==
    [current_hospitalized |-> 0, hospitalized |-> Disposition(0, 1),
     icu |-> Disposition(0, 1), relative_contact_rate |-> 0,
     ventilated |-> Disposition(0, 1), current_date |-> Today,
     date_first_hospitalized |-> None, doubling_time |-> None,
     infectious_days |-> DefaultInfectiousDays, market_share |-> 1,
     max_y_axis |-> None, n_days |-> DefaultNDays,
     population |-> Some(DefaultPopulation), recovered |-> 0, region |-> None]

RegionArgs(kw) ==
    [PopulationArgs EXCEPT !.population = None, !.region = Some(Regions_init(kw))]

\* Every way to replace one keyword argument of a other than region.
VaryArgs(a) ==
    {[a EXCEPT !.current_hospitalized = v] : v \in Nums}
    \cup {[a EXCEPT !.relative_contact_rate = v] : v \in Nums}
    \cup {[a EXCEPT !.hospitalized.rate = v] : v \in Nums}
    \cup {[a EXCEPT !.hospitalized.days = v] : v \in Nums}
    \cup {[a EXCEPT !.icu.rate = v] : v \in Nums}
    \cup {[a EXCEPT !.icu.days = v] : v \in Nums}
    \cup {[a EXCEPT !.ventilated.rate = v] : v \in Nums}
    \cup {[a EXCEPT !.ventilated.days = v] : v \in Nums}
    \cup {[a EXCEPT !.population = v] : v \in OptionalNums}
    \cup {[a EXCEPT !.current_date = v] : v \in {Today, NotADate}}
    \cup {[a EXCEPT !.date_first_hospitalized = v] :
             v \in {None, Some(Today), Some(NotADate)}}
    \cup {[a EXCEPT !.doubling_time = v] : v \in OptionalNums}
    \cup {[a EXCEPT !.infectious_days = v] : v \in Nums}
    \cup {[a EXCEPT !.market_share = v] : v \in Nums}
    \cup {[a EXCEPT !.max_y_axis = v] : v \in OptionalNums}
    \cup {[a EXCEPT !.n_days = v] : v \in Nums}
    \cup {[a EXCEPT !.recovered = v] : v \in Nums}

Join(parts) ==
    LET RECURSIVE J(_)
        J(i) == IF i > Len(parts) THEN <<>>
                ELSE (IF i = 1 THEN <<>> ELSE <<"-">>) \o parts[i] \o J(i + 1)
    IN  J(1)

\* The pieces a date string may carry at position i.
PartChoices(i) ==
    IF i = 1 THEN {<<"2", "0", "2", "0">>, <<"2", "0", "2", "1">>, <<"x">>}
    ELSE IF i = 2 THEN {<<"2">>, <<"1", "3">>, <<"0">>, <<>>}
    ELSE IF i = 3 THEN {<<"3">>, <<"2", "9">>, <<"3", "0">>, <<"x">>}
    ELSE {<<"9">>, <<"x">>}

RECURSIVE PartsOfLen(_)
PartsOfLen(n) ==
    IF n = 0 THEN {<<>>}
    ELSE {Append(ps, c) : ps \in PartsOfLen(n - 1), c \in PartChoices(n)}

DateStrings == {Join(ps) : ps \in UNION {PartsOfLen(n) : n \in 1..MaxDateParts}}

LeapDayString == <<"2", "0", "2", "0", "-", "2", "-", "2", "9">>

EmptyRequest ==
    [population |-> None, currentHospitalized |-> None, hospitalMarketShare |-> None,
     dateOfFirstHospitalizedCase |-> None, hospitalizationPercent |-> None,
     averageHospitalLengthOfStay |-> None, icuNeedPercent |-> None,
     averageDaysInICU |-> None, infectiousDays |-> None, socialDistancing |-> None,
     ventilationNeedPercent |-> None, averageDaysOnVentilator |-> None,
     numberOfDaysToProject |-> None]

FullRequest ==
    [population |-> Some(1), currentHospitalized |-> Some(0),
     hospitalMarketShare |-> Some(1),
     dateOfFirstHospitalizedCase |-> Some(LeapDayString),
     hospitalizationPercent |-> Some(0), averageHospitalLengthOfStay |-> Some(1),
     icuNeedPercent |-> Some(0), averageDaysInICU |-> Some(1),
     infectiousDays |-> Some(1), socialDistancing |-> Some(0),
     ventilationNeedPercent |-> Some(0), averageDaysOnVentilator |-> Some(1),
     numberOfDaysToProject |-> Some(1)]

NumericKeys ==
    {"population", "currentHospitalized", "hospitalMarketShare",
     "hospitalizationPercent", "averageHospitalLengthOfStay", "icuNeedPercent",
     "averageDaysInICU", "infectiousDays", "socialDistancing",
     "ventilationNeedPercent", "averageDaysOnVentilator", "numberOfDaysToProject"}

\* Every way to drop or replace one numeric key of r.
VaryRequest(r) ==
    {r} \cup {[r EXCEPT ![k] = v] : k \in NumericKeys, v \in OptionalNums}

DateInputs == {None} \cup {Some(str) : str \in DateStrings}

(***************************************************************************)
(* The state machine: one call per behaviour, its inputs drawn by Init.    *)
(***************************************************************************)
\* Regions is called with any keyword arguments.
InitRegions ==
    /\ call = "Regions"
    /\ kwargs \in KwargsInputs
    /\ args = PopulationArgs
    /\ request_data = EmptyRequest

\* Parameters is called without a region and up to two keyword arguments
\* replaced, or with the region built from kwargs, any population and up to
\* one other keyword argument replaced.
InitParameters ==
    /\ call = "Parameters"
    /\ \/ /\ kwargs = <<>>
          /\ \E a \in VaryArgs(PopulationArgs) : args \in VaryArgs(a)
       \/ /\ kwargs \in OrderedKwargs
          /\ \E p \in OptionalNums :
                args \in VaryArgs([RegionArgs(kwargs) EXCEPT !.population = p])
    /\ request_data = EmptyRequest

\* construct_parameters is called with the empty or the full request, up to
\* one numeric key dropped or replaced, and any date string.
InitRequest ==
    /\ call = "construct_parameters"
    /\ kwargs = <<>>
    /\ args = PopulationArgs
    /\ \E base \in {EmptyRequest, FullRequest} :
          \E r \in VaryRequest(base) : \E d \in DateInputs :
             request_data = [r EXCEPT !.dateOfFirstHospitalizedCase = d]

Init ==
    /\ pc = "call"
    /\ regions = None
    /\ parameters = None
    /\ exc = None
    /\ (InitRegions \/ InitParameters \/ InitRequest)

NewRegions ==
    /\ pc = "call" /\ call = "Regions"
    /\ regions' = Some(Regions_init(kwargs))
    /\ pc' = "return"
    /\ UNCHANGED <<call, kwargs, args, request_data, parameters, exc>>

NewParameters ==
    /\ pc = "call" /\ call = "Parameters"
    /\ LET r == Parameters_init(args)
       IN  /\ parameters' = IF r.exc = None THEN Some(r.self) ELSE None
           /\ exc' = r.exc
    /\ pc' = "return"
    /\ UNCHANGED <<call, kwargs, args, request_data, regions>>

ConstructParameters ==
    /\ pc = "call" /\ call = "construct_parameters"
    /\ LET r == construct_parameters(request_data)
       IN  /\ parameters' = IF r.exc = None THEN Some(r.self) ELSE None
           /\ exc' = r.exc
    /\ pc' = "return"
    /\ UNCHANGED <<call, kwargs, args, request_data, regions>>

Next == NewRegions \/ NewParameters \/ ConstructParameters

Spec == Init /\ [][Next]_vars

(***************************************************************************)
(* Properties.                                                             *)
(***************************************************************************)
Returned(f) == pc = "return" /\ call = f

\* The Parameters object and the Regions object a call returned.
P == Get(parameters)
R == Get(regions)

RaisedType(t) == exc # None /\ Get(exc).type = t

\* The keyword arguments that break a field constraint of Parameters, and a
\* missing population source, read off the arguments alone.
Violations(a) ==
    {f \in {"current_hospitalized"} : a.current_hospitalized < 0}
    \cup {f \in {"relative_contact_rate"} :
             a.relative_contact_rate < 0 \/ a.relative_contact_rate > 1}
    \cup {f \in {"hospitalized.rate"} : a.hospitalized.rate < 0 \/ a.hospitalized.rate > 1}
    \cup {f \in {"icu.rate"} : a.icu.rate < 0 \/ a.icu.rate > 1}
    \cup {f \in {"ventilated.rate"} : a.ventilated.rate < 0 \/ a.ventilated.rate > 1}
    \cup {f \in {"hospitalized.days"} : a.hospitalized.days <= 0}
    \cup {f \in {"icu.days"} : a.icu.days <= 0}
    \cup {f \in {"ventilated.days"} : a.ventilated.days <= 0}
    \cup {f \in {"population or regions"} : a.population = None /\ a.region = None}
    \cup {f \in {"population"} :
             \/ \E n \in a.population : n <= 0
             \/ a.population = None /\ \E r \in a.region : r["population"] <= 0}
    \cup {f \in {"current_date"} : ~a.current_date.isdate}
    \cup {f \in {"date_first_hospitalized"} :
             \E d \in a.date_first_hospitalized : ~d.isdate}
    \cup {f \in {"doubling_time"} : \E n \in a.doubling_time : n <= 0}
    \cup {f \in {"infectious_days"} : a.infectious_days <= 0}
    \cup {f \in {"market_share"} : a.market_share < 0 \/ a.market_share > 1}
    \cup {f \in {"max_y_axis"} : \E n \in a.max_y_axis : n <= 0}
    \cup {f \in {"n_days"} : a.n_days <= 0}
    \cup {f \in {"recovered"} : a.recovered < 0}

\* The step of the construction protocol a field is checked in.
StepOf(f) ==
    IF f \in {"current_hospitalized", "relative_contact_rate"} THEN 1
    ELSE IF f \in {"hospitalized.rate", "icu.rate", "ventilated.rate",
                    "hospitalized.days", "icu.days", "ventilated.days"} THEN 2
    ELSE IF f \in {"population or regions", "population"} THEN 3
    ELSE IF f = "current_date" THEN 4
    ELSE IF f \in {"date_first_hospitalized", "doubling_time"} THEN 5
    ELSE 6

RECURSIVE SumCounts(_)
SumCounts(kw) == IF kw = <<>> THEN 0 ELSE kw[1][2] + SumCounts(Tail(kw))

C2_EmptyRequestSucceeds ==
    (Returned("construct_parameters") /\ request_data = EmptyRequest)
    => /\ parameters # None
       /\ P.population = 10000
       /\ P.n_days = 100
       /\ P.date_first_hospitalized = Some(MkDate(2020, 7, 3))
       /\ P.hospitalized = Disposition(0, 0)

\* The field constraints, read off a constructed Parameters.
Constrained(o) ==
    /\ o.current_hospitalized >= 0
    /\ 0 <= o.relative_contact_rate /\ o.relative_contact_rate <= 1
    /\ \A d \in {o.hospitalized, o.icu, o.ventilated} :
          0 <= d.rate /\ d.rate <= 1 /\ d.days > 0
    /\ o.population > 0
    /\ o.infectious_days > 0
    /\ 0 <= o.market_share /\ o.market_share <= 1
    /\ o.n_days > 0
    /\ o.recovered >= 0
    /\ \A n \in o.doubling_time : n > 0
    /\ \A n \in o.max_y_axis : n > 0

\* C3: every Parameters a call returns satisfies all the field constraints,
\* and a Parameters call whose arguments break a constraint returns none.
C3_ReturnedParametersValid ==
    /\ (pc = "return" /\ parameters # None) => Constrained(P)
    /\ (Returned("Parameters") /\ Violations(args) # {}) => parameters = None

C3_Witness ==
    /\ Returned("Parameters") /\ parameters # None
    /\ args.region # None /\ args.population = None
    /\ P.doubling_time # None

\* The date string construct_parameters reads from the request.
DateString == dict_get(request_data.dateOfFirstHospitalizedCase, DefaultDateString)

Numeric(piece) == piece # <<>> /\ \A i \in 1..Len(piece) : piece[i] \in Digits

\* A date string is malformed when it does not have exactly three pieces
\* between its "-" separators, a piece is not a number, or the three numbers
\* are no calendar date.
Malformed(str) ==
    \/ Cardinality({i \in 1..Len(str) : str[i] = "-"}) # 2
    \/ \E i \in 1..3 : ~Numeric(split(str)[i])
    \/ LET y == DecimalValue(split(str)[1])
           m == DecimalValue(split(str)[2])
           d == DecimalValue(split(str)[3])
       IN  ~(/\ 1 <= y /\ y <= 9999 /\ 1 <= m /\ m <= 12 /\ 1 <= d
             /\ d <= (IF m = 2 THEN (IF y % 4 = 0 /\ (y % 100 # 0 \/ y % 400 = 0)
                                     THEN 29 ELSE 28)
                      ELSE IF m \in {4, 6, 9, 11} THEN 30 ELSE 31))

\* C4: for every request whose date string is malformed, construct_parameters
\* fails with a parse or date-construction error and returns no Parameters.
\* Stated for the requests whose other keys are those of FullRequest, so that
\* nothing but the date string can make the call fail.
C4_MalformedDateFails ==
    (Returned("construct_parameters") /\ Malformed(DateString)
        /\ \A k \in NumericKeys : request_data[k] = FullRequest[k])
    => /\ parameters = None
       /\ exc # None
       /\ Get(exc).field \in {"split_date", "int", "date"}

C6_NoSourceRejected ==
    (Returned("Parameters") /\ args.population = None /\ args.region = None
        /\ \A f \in Violations(args) : StepOf(f) >= 3)
    => (parameters = None /\ RaisedType("AssertionError"))

C6_Witness ==
    /\ Returned("Parameters") /\ args.population = None /\ args.region = None
    /\ \A f \in Violations(args) : StepOf(f) >= 3
    /\ ~args.current_date.isdate
    /\ RaisedType("AssertionError")

\* C7: after Regions is constructed, every supplied name is an attribute and
\* its value is the count supplied for that name.
C7_EveryNameReadsItsCount ==
    Returned("Regions")
    => \A i \in DOMAIN kwargs :
          /\ kwargs[i][1] \in DOMAIN R
          /\ R[kwargs[i][1]] = kwargs[i][2]

\* C8: a Parameters constructed from exactly one population source stores
\* every supplied value unchanged, stores the three dispositions as
\* supplied, and dispositions[name] is the attribute of that name.
C8_StoredAsSupplied ==
    (Returned("Parameters") /\ parameters # None
        /\ (args.population = None) # (args.region = None))
    => /\ P.current_hospitalized = args.current_hospitalized
       /\ P.relative_contact_rate = args.relative_contact_rate
       /\ P.hospitalized = args.hospitalized
       /\ P.icu = args.icu
       /\ P.ventilated = args.ventilated
       /\ P.region = args.region
       /\ P.population = (IF args.population # None THEN Get(args.population)
                          ELSE Get(args.region)["population"])
       /\ P.current_date = args.current_date
       /\ P.date_first_hospitalized = args.date_first_hospitalized
       /\ P.doubling_time = args.doubling_time
       /\ P.infectious_days = args.infectious_days
       /\ P.market_share = args.market_share
       /\ P.max_y_axis = args.max_y_axis
       /\ P.n_days = args.n_days
       /\ P.recovered = args.recovered
       /\ \A n \in {"hospitalized", "icu", "ventilated"} : P.dispositions[n] = P[n]

C8_Witness ==
    /\ Returned("Parameters") /\ parameters # None
    /\ args.population # None /\ args.region = None
    /\ P.icu # P.ventilated
    /\ P.infectious_days # P.n_days

\* C9: when the arguments break the constraints of several steps, the
\* failure raised belongs to the earliest broken step.
C9_EarliestStepFails ==
    (Returned("Parameters") /\ Violations(args) # {})
    => /\ exc # None
       /\ StepOf(Get(exc).field) = Min({StepOf(f) : f \in Violations(args)})

C9_Witness ==
    /\ Returned("Parameters")
    /\ "population or regions" \in Violations(args)
    /\ "ventilated.days" \in Violations(args)
    /\ exc = Some(Exception("ValidationError", "ventilated.days"))

\* C10: a constructed Parameters has a region exactly when its population
\* was derived from regions: with a region and no population it stores that
\* region and the sum of the counts the region was built from, which is
\* > 0 (a total <= 0 fails); with a population and no region it stores no
\* region and the supplied population.
C10_RegionIffDerived ==
    Returned("Parameters")
    => /\ (args.region # None /\ args.population = None /\ SumCounts(kwargs) <= 0)
             => parameters = None
       /\ parameters # None =>
             /\ P.region # None <=> (args.region # None /\ args.population = None)
             /\ (args.region # None /\ args.population = None)
                   => /\ P.region = args.region
                      /\ P.population = SumCounts(kwargs)
                      /\ P.population > 0
             /\ (args.population # None /\ args.region = None)
                   => /\ P.region = None
                      /\ P.population = Get(args.population)

C10_Witness ==
    /\ Returned("Parameters") /\ parameters # None
    /\ args.region # None /\ args.population = None
    /\ Len(kwargs) = 2
    /\ P.population = 3

====
